---- MODULE Spec2Model ----
(***************************************************************************)
(* Model of the k-tape Turing machine simulator of package mtm:            *)
(*   src/src/mtm/tape.py     class Tape (sparse tape with one head)        *)
(*   src/src/mtm/machine.py  class MultiTapeTuringMachine (step/run/reset) *)
(*                                                                         *)
(* A Tape is the record [blank, cells, head]; cells is a function whose    *)
(* domain is the set of positions that have an entry in the Python dict.   *)
(* A string is a sequence of symbols (one per character).                  *)
(***************************************************************************)
EXTENDS Integers, Sequences, FiniteSets, TLC

VARIABLES
    \* ---- MultiTapeTuringMachine fields ----
    states,          \* self.states
    input_alphabet,  \* self.input_alphabet
    tape_alphabet,   \* self.tape_alphabet
    transitions,     \* self.transitions : (state, reads) -> (new_state, writes, moves)
    start_state,     \* self.start_state
    accept_states,   \* self.accept_states
    reject_states,   \* self.reject_states
    num_tapes,       \* self.num_tapes
    blank,           \* self.blank
    tapes,           \* self.tapes : sequence of Tape records
    current_state,   \* self.current_state
    step_count,      \* self.step_count
    \* ---- the last call made on the machine ----
    op,              \* "init", "step", "run", "reset", "get_configuration"
    max_steps,       \* argument of the last run() call (0 for other calls)
    given_inputs,    \* initial_inputs of the last __init__/reset call (<<>> for other calls)
    status,          \* value returned by the last step()/run() call ("NONE" otherwise)
    raised,          \* TRUE iff the last call ended in ValueError
    calls,           \* number of step() calls made by the last step()/run() call
    applied,         \* number of those step() calls that applied a transition
    config,          \* dict returned by the last get_configuration() call
    \* ---- a stand-alone Tape object and the last call made on it ----
    tape,            \* the Tape record
    tapeOp,          \* "new", "read", "write", "move", "str"
    tapeArg,         \* argument of the last write (symbol) or move (direction)
    tapeRet,         \* value returned by the last call ("None" for write and move)
    \* ---- the history of the stand-alone Tape (not fields of the object) ----
    tapeInput,       \* the initial_input it was built from
    tapeWritten      \* position -> symbol of the latest write() made there

machineVars == <<states, input_alphabet, tape_alphabet,
                 transitions, start_state, accept_states, reject_states, num_tapes,
                 blank, tapes, current_state, step_count,
                 op, max_steps, given_inputs, status, raised, calls, applied, config>>
tapeVars == <<tape, tapeOp, tapeArg, tapeRet, tapeInput, tapeWritten>>
vars == <<machineVars, tapeVars>>

(***************************************************************************)
(* Bounds of the model.                                                    *)
(***************************************************************************)
MaxSteps == 3        \* step_count is explored up to this value
MaxInputLen == 1     \* longest initial string given to a tape
MaxHead == 1         \* the stand-alone tape's head is explored in -MaxHead..MaxHead

States == {"q0", "q1"}
Symbols == {"1", "_"}
Directions == {-1, 0, 1}

\* All strings over Symbols of length at most n.
Strings(n) == UNION {[1..l -> Symbols] : l \in 0..n}

(***************************************************************************)
(* Tape (tape.py).                                                         *)
(***************************************************************************)

\* Tape.__init__: one cell per character of initial_input, head at 0.
TapeNew(b, initial_input) ==
    [blank |-> b,
     cells |-> [i \in 0..(Len(initial_input) - 1) |-> initial_input[i + 1]],
     head  |-> 0]

\* Variant of TapeRead: the tape has no cell left of position 0.
TapeReadNonNegative(t) ==
    IF t.head >= 0 /\ t.head \in DOMAIN t.cells THEN t.cells[t.head] ELSE t.blank

\* Tape.read: self.cells.get(self.head, self.blank)
TapeRead(t) ==
    IF t.head \in DOMAIN t.cells THEN t.cells[t.head] ELSE t.blank

\* Tape.write: the entry is deleted only when the symbol is blank AND an entry
\* exists at the head; in every other case the symbol is stored.
TapeWrite(t, symbol) ==
    IF symbol = t.blank /\ t.head \in DOMAIN t.cells
    THEN [t EXCEPT !.cells = [p \in (DOMAIN t.cells) \ {t.head} |-> t.cells[p]]]
    ELSE [t EXCEPT !.cells = [p \in (DOMAIN t.cells) \cup {t.head} |->
                                 IF p = t.head THEN symbol ELSE t.cells[p]]]

\* Tape.move: self.head += int(direction)
TapeMove(t, direction) == [t EXCEPT !.head = t.head + direction]

\* min(indices) and max(indices)
MinOf(S) == CHOOSE x \in S : \A y \in S : x <= y
MaxOf(S) == CHOOSE x \in S : \A y \in S : x >= y

\* Tape.__str__, the string as the sequence of its characters: "[blank]" when
\* the dict is empty, else for every position from the smallest to the largest
\* of the dict's keys and the head, "[ch]" at the head and " ch " elsewhere.
TapeStr(t) ==
    IF DOMAIN t.cells = {}
    THEN <<"[", t.blank, "]">>
    ELSE LET indices == (DOMAIN t.cells) \cup {t.head}
             min_i == MinOf(indices)
             max_i == MaxOf(indices)
         IN  [j \in 1..(3 * (max_i - min_i + 1)) |->
                LET i == min_i + ((j - 1) \div 3)
                    ch == IF i \in DOMAIN t.cells THEN t.cells[i] ELSE t.blank
                IN  IF (j - 1) % 3 = 1 THEN ch
                    ELSE IF i # t.head THEN " "
                    ELSE IF (j - 1) % 3 = 0 THEN "[" ELSE "]"]

(***************************************************************************)
(* MultiTapeTuringMachine.step (machine.py).                               *)
(***************************************************************************)

\* read_symbols = tuple(t.read() for t in self.tapes)
ReadSymbols(tps) == [i \in 1..Len(tps) |-> TapeRead(tps[i])]

\* key = (self.current_state, read_symbols)
Key(cs, tps) == <<cs, ReadSymbols(tps)>>

\* Variant of HaltStatus: a stuck machine in neither set is reported as RUNNING.
HaltStatusRunning(cs) ==
    IF cs \in accept_states THEN "ACCEPT"
    ELSE IF cs \in reject_states THEN "REJECT"
    ELSE "RUNNING"

\* Variant of HaltStatus: the reject check is left out.
HaltStatusNoReject(cs) ==
    IF cs \in accept_states THEN "ACCEPT" ELSE "HALT"

\* The three-way check of the branch taken when the key is not in transitions.
HaltStatus(cs) ==
    IF cs \in accept_states THEN "ACCEPT"
    ELSE IF cs \in reject_states THEN "REJECT"
    ELSE "HALT"

\* Variant of AfterStatus: no special state is looked for after a transition;
\* a halting state is reported by the next step that finds no transition.
AfterStatusNoCheck(cs) == "RUNNING"

\* Variant of AfterStatus: rejection is checked before acceptance.
AfterStatusRejectFirst(cs) ==
    IF cs \in reject_states THEN "REJECT"
    ELSE IF cs \in accept_states THEN "ACCEPT"
    ELSE "RUNNING"

\* The check made after a transition has been applied.
AfterStatus(cs) ==
    IF cs \in accept_states THEN "ACCEPT"
    ELSE IF cs \in reject_states THEN "REJECT"
    ELSE "RUNNING"

\* for t, sym in zip(self.tapes, write_symbols): t.write(sym)
WriteAll(tps, write_symbols) ==
    [i \in 1..Len(tps) |->
        IF i <= Len(write_symbols) THEN TapeWrite(tps[i], write_symbols[i]) ELSE tps[i]]

\* for t, mv in zip(self.tapes, moves): t.move(mv)
MoveAll(tps, moves) ==
    [i \in 1..Len(tps) |->
        IF i <= Len(moves) THEN TapeMove(tps[i], moves[i]) ELSE tps[i]]

\* Variant of NextCount: the step is counted once per tape.
NextCountPerTape(sc) == sc + num_tapes

\* step_count after an applied transition.
NextCount(sc) == sc + 1

\* Variant of NoTransition: the step is counted before the lookup, so a step
\* that finds no transition is counted too.
NoTransitionCounts(c) ==
    [state |-> c.state, step |-> c.step + 1, tapes |-> c.tapes,
     status |-> HaltStatus(c.state)]

\* The branch of step() taken when the key is not in transitions, on the
\* dynamic state c = [state, step, tapes]: nothing is assigned.
NoTransition(c) ==
    [state |-> c.state, step |-> c.step, tapes |-> c.tapes,
     status |-> HaltStatus(c.state)]

\* Variant of Apply: the heads are moved before the symbols are written.
ApplyMoveFirst(c, tv) ==
    [state  |-> tv[1],
     step   |-> NextCount(c.step),
     tapes  |-> WriteAll(MoveAll(c.tapes, tv[3]), tv[2]),
     status |-> AfterStatus(tv[1])]

\* The branch of step() taken when the key maps to tv = (new_state,
\* write_symbols, moves): write all, move all, set the state, count the step.
Apply(c, tv) ==
    LET new_state == tv[1]
        write_symbols == tv[2]
        moves == tv[3]
    IN  [state  |-> new_state,
         step   |-> NextCount(c.step),
         tapes  |-> MoveAll(WriteAll(c.tapes, write_symbols), moves),
         status |-> AfterStatus(new_state)]

\* One step() call on the dynamic state c = [state, step, tapes]; the result is
\* the dynamic state after the call together with the returned status.
StepOf(c) ==
    LET key == Key(c.state, c.tapes) IN
    IF key \notin DOMAIN transitions
    THEN NoTransition(c)
    ELSE Apply(c, transitions[key])

(***************************************************************************)
(* MultiTapeTuringMachine.run (machine.py).                                *)
(***************************************************************************)

\* Variant of LoopGuard: the budget is compared with <=.
LoopGuardInclusive(st, sc, m) == st = "RUNNING" /\ sc <= m

\* Variant of LoopGuard: the loop stops one step short of the budget.
LoopGuardShort(st, sc, m) == st = "RUNNING" /\ sc < m - 1

\* while status == "RUNNING" and self.step_count < max_steps
LoopGuard(st, sc, m) == st = "RUNNING" /\ sc < m

\* The while loop of run(), from the loop state r = [state, step, tapes, status,
\* calls]; calls counts the step() calls made so far.
RECURSIVE RunLoop(_, _)
RunLoop(r, m) ==
    IF LoopGuard(r.status, r.step, m)
    THEN LET s == StepOf([state |-> r.state, step |-> r.step, tapes |-> r.tapes])
         IN  RunLoop([state |-> s.state, step |-> s.step, tapes |-> s.tapes,
                      status |-> s.status, calls |-> r.calls + 1], m)
    ELSE r

\* Variant of RunOf: a do-while loop, the first step() is made before the
\* guard is looked at.
RunOfDoWhile(c, m) ==
    LET s == StepOf(c)
    IN  RunLoop([state |-> s.state, step |-> s.step, tapes |-> s.tapes,
                 status |-> s.status, calls |-> 1], m)

\* Variant of RunOf: the budget is counted per call, step_count restarting
\* from 0.
RunOfFromZero(c, m) ==
    RunLoop([state |-> c.state, step |-> 0, tapes |-> c.tapes,
             status |-> "RUNNING", calls |-> 0], m)

\* run(max_steps) on the dynamic state c: status starts as "RUNNING".
RunOf(c, m) ==
    RunLoop([state |-> c.state, step |-> c.step, tapes |-> c.tapes,
             status |-> "RUNNING", calls |-> 0], m)

\* Variant of ConfigurationOf: the state reported is the start state.
ConfigurationOfStart(c) ==
    [state |-> start_state,
     tapes |-> [i \in 1..Len(c.tapes) |-> TapeStr(c.tapes[i])],
     step  |-> c.step]

\* The dict built by get_configuration() in the dynamic state c.
ConfigurationOf(c) ==
    [state |-> c.state,
     tapes |-> [i \in 1..Len(c.tapes) |-> TapeStr(c.tapes[i])],
     step  |-> c.step]

\* The value of config while no get_configuration() result is at hand.
NoConfiguration == [state |-> "NONE", tapes |-> <<>>, step |-> 0]

\* The dynamic state of the machine.
Dyn == [state |-> current_state, step |-> step_count, tapes |-> tapes]

(***************************************************************************)
(* The machines explored: every single-tape table with at most one rule,   *)
(* and three two-tape tables.                                              *)
(***************************************************************************)
EmptyTable == [k \in {} |-> <<>>]

SingleTapeKeys == {<<q, <<s>>>> : q \in States, s \in Symbols}
SingleTapeValues == {<<q, <<s>>, <<d>>>> : q \in States, s \in Symbols, d \in Directions}
SingleRuleTables ==
    {[k \in {key} |-> val] : key \in SingleTapeKeys, val \in SingleTapeValues}

\* Copies tape 1 onto tape 2 while tape 1 reads "1"; on blank it enters q1.
Copier ==
    [k \in {<<"q0", <<"1", "_">>>>, <<"q0", <<"_", "_">>>>} |->
        IF k[2][1] = "1" THEN <<"q0", <<"1", "1">>, <<1, 1>>>>
                         ELSE <<"q1", <<"_", "_">>, <<0, 0>>>>]

\* Moves a "1" from tape 1 to tape 2, the heads going opposite ways.
Mover ==
    [k \in {<<"q0", <<"1", "_">>>>, <<"q1", <<"_", "_">>>>} |->
        IF k[1] = "q0" THEN <<"q1", <<"_", "1">>, <<-1, 1>>>>
                       ELSE <<"q0", <<"1", "_">>, <<0, -1>>>>]

\* Loops for ever on two blank tapes, writing on tape 2 only.
Looper ==
    [k \in {<<"q0", <<"_", "_">>>>, <<"q0", <<"_", "1">>>>} |->
        <<"q0", <<"_", "1">>, <<1, 0>>>>]

Programs ==
    {[k |-> 1, delta |-> d] : d \in {EmptyTable} \cup SingleRuleTables}
    \cup {[k |-> 2, delta |-> d] : d \in {Copier, Mover, Looper}}

\* Every initial_inputs sequence with one string per tape.
InputsFor(k) == [1..k -> Strings(MaxInputLen)]

(***************************************************************************)
(* Initial states and actions of the machine.                              *)
(***************************************************************************)

\* No write() has been made on the stand-alone tape.
NothingWritten == [p \in {} |-> "_"]

\* The stand-alone tape is not used by the machine's operations.
TapeIdle ==
    /\ tape = TapeNew("_", <<>>)
    /\ tapeOp = "new"
    /\ tapeArg = "_"
    /\ tapeRet = "None"
    /\ tapeInput = <<>>
    /\ tapeWritten = NothingWritten

\* Variant of LengthOk: only too short a sequence is refused.
LengthAtLeast(initial_inputs, k) == Len(initial_inputs) >= k

\* The length test of __init__ and reset: len(initial_inputs) != num_tapes
\* raises ValueError.
LengthOk(initial_inputs, k) == Len(initial_inputs) = k

\* The initial_inputs given to __init__ and reset for k tapes: one string per
\* tape, or a sequence that is one too short or one too long.
InputsGiven(k) ==
    InputsFor(k) \cup {[i \in 1..n |-> <<"1">>] : n \in {k - 1, k + 1}}

\* MultiTapeTuringMachine.__init__.  When the length test fails the
\* constructor raises before tapes, current_state and step_count are
\* assigned: no machine exists, and no operation is ever called on it (tapes
\* is <<>>, current_state "UNSET" and step_count 0 in the model).
MachineInit ==
    /\ states = States
    /\ input_alphabet = {"1"}
    /\ tape_alphabet = Symbols
    /\ blank = "_"
    /\ start_state = "q0"
    /\ accept_states \in SUBSET States
    /\ reject_states \in SUBSET States
    /\ \E prog \in Programs :
          /\ transitions = prog.delta
          /\ num_tapes = prog.k
          /\ \E inputs \in InputsGiven(prog.k) :
                /\ given_inputs = inputs
                /\ IF LengthOk(inputs, prog.k)
                   THEN /\ raised = FALSE
                        /\ tapes = [i \in 1..prog.k |-> TapeNew("_", inputs[i])]
                        /\ current_state = "q0"
                   ELSE /\ raised = TRUE
                        /\ tapes = <<>>
                        /\ current_state = "UNSET"
    /\ step_count = 0
    /\ op = "init"
    /\ max_steps = 0
    /\ status = "NONE"
    /\ calls = 0
    /\ applied = 0
    /\ config = NoConfiguration

\* A machine exists: its construction did not raise.
Constructed == ~(op = "init" /\ raised)

Init == MachineInit /\ TapeIdle

Static == <<states, input_alphabet, tape_alphabet, transitions, start_state,
            accept_states, reject_states, num_tapes, blank>>

\* Variant of ResetOf: the step counter is left as it is.
ResetOfKeepsCount(initial_inputs) ==
    [state |-> start_state,
     step  |-> step_count,
     tapes |-> [i \in 1..Len(initial_inputs) |-> TapeNew(blank, initial_inputs[i])]]

\* The assignments of a reset(initial_inputs) that passed the length test:
\* one fresh tape per given string, current_state = start_state, step_count = 0.
ResetOf(initial_inputs) ==
    [state |-> start_state,
     step  |-> 0,
     tapes |-> [i \in 1..Len(initial_inputs) |-> TapeNew(blank, initial_inputs[i])]]

\* step()
Step ==
    LET s == StepOf(Dyn) IN
    /\ Constructed
    /\ s.step <= MaxSteps
    /\ current_state' = s.state
    /\ step_count' = s.step
    /\ tapes' = s.tapes
    /\ status' = s.status
    /\ op' = "step"
    /\ max_steps' = 0
    /\ given_inputs' = <<>>
    /\ raised' = FALSE
    /\ calls' = 1
    /\ applied' = s.step - step_count
    /\ config' = NoConfiguration
    /\ UNCHANGED <<Static, tapeVars>>

\* run(m)
Run(m) ==
    LET r == RunOf(Dyn, m) IN
    /\ Constructed
    /\ current_state' = r.state
    /\ step_count' = r.step
    /\ tapes' = r.tapes
    /\ status' = r.status
    /\ op' = "run"
    /\ max_steps' = m
    /\ given_inputs' = <<>>
    /\ raised' = FALSE
    /\ calls' = r.calls
    /\ applied' = r.step - step_count
    /\ config' = NoConfiguration
    /\ UNCHANGED <<Static, tapeVars>>

\* Variant of Reset: the machine is re-initialised with the constructor's
\* default reject_states (none).
ResetReinit(initial_inputs) ==
    /\ Constructed
    /\ op' = "reset"
    /\ max_steps' = 0
    /\ given_inputs' = initial_inputs
    /\ status' = "NONE"
    /\ calls' = 0
    /\ applied' = 0
    /\ config' = NoConfiguration
    /\ IF ~LengthOk(initial_inputs, num_tapes)
       THEN /\ raised' = TRUE
            /\ UNCHANGED <<tapes, current_state, step_count, reject_states>>
       ELSE /\ raised' = FALSE
            /\ tapes' = ResetOf(initial_inputs).tapes
            /\ current_state' = ResetOf(initial_inputs).state
            /\ step_count' = ResetOf(initial_inputs).step
            /\ reject_states' = {}
    /\ UNCHANGED <<states, input_alphabet, tape_alphabet, transitions, start_state,
                   accept_states, num_tapes, blank, tapeVars>>

\* reset(initial_inputs): ValueError when the length is not num_tapes, else
\* fresh tapes, current_state = start_state, step_count = 0.
Reset(initial_inputs) ==
    /\ Constructed
    /\ op' = "reset"
    /\ max_steps' = 0
    /\ given_inputs' = initial_inputs
    /\ status' = "NONE"
    /\ calls' = 0
    /\ applied' = 0
    /\ config' = NoConfiguration
    /\ IF ~LengthOk(initial_inputs, num_tapes)
       THEN /\ raised' = TRUE
            /\ UNCHANGED <<tapes, current_state, step_count>>
       ELSE /\ raised' = FALSE
            /\ tapes' = ResetOf(initial_inputs).tapes
            /\ current_state' = ResetOf(initial_inputs).state
            /\ step_count' = ResetOf(initial_inputs).step
    /\ UNCHANGED <<Static, tapeVars>>

\* The initial_inputs given to reset.
ResetInputs == InputsGiven(num_tapes)

\* get_configuration()
GetConfiguration ==
    /\ Constructed
    /\ config' = ConfigurationOf(Dyn)
    /\ op' = "get_configuration"
    /\ max_steps' = 0
    /\ given_inputs' = <<>>
    /\ status' = "NONE"
    /\ raised' = FALSE
    /\ calls' = 0
    /\ applied' = 0
    /\ UNCHANGED <<tapes, current_state, step_count, Static, tapeVars>>

Next ==
    \/ Step
    \/ \E m \in -1..MaxSteps : Run(m)
    \/ \E initial_inputs \in ResetInputs : Reset(initial_inputs)
    \/ GetConfiguration

Spec == Init /\ [][Next]_vars

(***************************************************************************)
(* The stand-alone Tape: any initial string, then any reads, writes and    *)
(* moves.  The machine is not used by the tape's operations.               *)
(***************************************************************************)
MachineIdle ==
    /\ states = States
    /\ input_alphabet = {"1"}
    /\ tape_alphabet = Symbols
    /\ given_inputs = <<<<>>>>
    /\ transitions = EmptyTable
    /\ num_tapes = 1
    /\ tapes = <<TapeNew("_", <<>>)>>
    /\ blank = "_"
    /\ start_state = "q0"
    /\ accept_states = {}
    /\ reject_states = {}
    /\ current_state = "q0"
    /\ step_count = 0
    /\ op = "init"
    /\ max_steps = 0
    /\ status = "NONE"
    /\ raised = FALSE
    /\ calls = 0
    /\ applied = 0
    /\ config = NoConfiguration

\* Tape("_", initial_input)
TapeInit ==
    /\ \E initial_input \in Strings(MaxInputLen) :
          /\ tape = TapeNew("_", initial_input)
          /\ tapeInput = initial_input
    /\ tapeOp = "new"
    /\ tapeArg = "_"
    /\ tapeRet = "None"
    /\ tapeWritten = NothingWritten

\* tape.read()
DoRead ==
    /\ tapeRet' = TapeRead(tape)
    /\ tapeOp' = "read"
    /\ UNCHANGED <<tape, tapeArg, tapeInput, tapeWritten, machineVars>>

\* tape.write(symbol)
DoWrite(symbol) ==
    /\ tape' = TapeWrite(tape, symbol)
    /\ tapeOp' = "write"
    /\ tapeArg' = symbol
    /\ tapeRet' = "None"
    /\ tapeWritten' = [p \in DOMAIN tapeWritten \cup {tape.head} |->
                          IF p = tape.head THEN symbol ELSE tapeWritten[p]]
    /\ UNCHANGED <<tapeInput, machineVars>>

\* tape.move(direction)
DoMove(direction) ==
    /\ tape.head + direction \in -MaxHead..MaxHead
    /\ tape' = TapeMove(tape, direction)
    /\ tapeOp' = "move"
    /\ tapeArg' = direction
    /\ tapeRet' = "None"
    /\ UNCHANGED <<tapeInput, tapeWritten, machineVars>>

\* str(tape)
DoStr ==
    /\ tapeRet' = TapeStr(tape)
    /\ tapeOp' = "str"
    /\ UNCHANGED <<tape, tapeArg, tapeInput, tapeWritten, machineVars>>

TapeNext ==
    \/ DoRead
    \/ \E symbol \in Symbols : DoWrite(symbol)
    \/ \E direction \in Directions : DoMove(direction)
    \/ DoStr

TapeSpecInit == MachineIdle /\ TapeInit

TapeSpec == TapeSpecInit /\ [][TapeNext]_vars

(***************************************************************************)
(* The unary-successor machine: one tape, blank "_", q0 the start state and *)
(* the only accept state, the single rule (q0,("1",)) -> (q0,("1",),(1,)), *)
(* on inputs 1^n.                                                          *)
(***************************************************************************)
MaxOnes == 3         \* longest input 1^n given to the unary machine
MaxBudget == 10      \* largest max_steps given to run() on the unary machine

UnarySuccessor == [k \in {<<"q0", <<"1">>>>} |-> <<"q0", <<"1">>, <<1>>>>]

Ones(n) == [i \in 1..n |-> "1"]

UnaryInit ==
    /\ states = {"q0"}
    /\ input_alphabet = {"1"}
    /\ tape_alphabet = Symbols
    /\ transitions = UnarySuccessor
    /\ num_tapes = 1
    /\ blank = "_"
    /\ start_state = "q0"
    /\ accept_states = {"q0"}
    /\ reject_states = {}
    /\ \E n \in 0..MaxOnes :
          /\ given_inputs = <<Ones(n)>>
          /\ tapes = <<TapeNew("_", Ones(n))>>
    /\ current_state = "q0"
    /\ step_count = 0
    /\ op = "init"
    /\ max_steps = 0
    /\ status = "NONE"
    /\ raised = FALSE
    /\ calls = 0
    /\ applied = 0
    /\ config = NoConfiguration
    /\ TapeIdle

UnaryNext ==
    \/ Step
    \/ \E m \in 0..MaxBudget : Run(m)
    \/ \E n \in 0..MaxOnes : Reset(<<Ones(n)>>)
    \/ GetConfiguration

UnarySpec == UnaryInit /\ [][UnaryNext]_vars

(***************************************************************************)
(* Properties.                                                             *)
(***************************************************************************)

\* The key (current_state, symbols under the heads) has no transition.
NoRule == <<current_state, [i \in 1..Len(tapes) |-> TapeRead(tapes[i])]>>
              \notin DOMAIN transitions

\* The rule of the current key (when there is one).
Rule == transitions[<<current_state, [i \in 1..Len(tapes) |-> TapeRead(tapes[i])]>>]

\* The symbol a tape holds at position p: the stored one, else blank.
Content(t, p) == IF p \in DOMAIN t.cells THEN t.cells[p] ELSE t.blank

\* C1: whenever step() is called in a configuration whose key (current_state,
\* symbols read) is absent from transitions, it does not raise and returns
\* ACCEPT if current_state is in accept_states, otherwise REJECT if it is in
\* reject_states, otherwise HALT.
C1_UndefinedTransitionClassifies ==
    [][(op' = "step" /\ NoRule) =>
          /\ raised' = FALSE
          /\ current_state \in accept_states => status' = "ACCEPT"
          /\ (current_state \notin accept_states /\ current_state \in reject_states)
                => status' = "REJECT"
          /\ (current_state \notin accept_states /\ current_state \notin reject_states)
                => status' = "HALT"]_vars

\* A step() that found no transition returned REJECT for a reject-only state.
C1_Witness ==
    /\ op = "step" /\ applied = 0 /\ NoRule
    /\ current_state \in reject_states \ accept_states
    /\ status = "REJECT" /\ raised = FALSE

\* C2: a step() that finds no transition for its key leaves current_state,
\* step_count and every tape (head and cells) exactly as they were.
C2_UndefinedTransitionMutatesNothing ==
    [][(op' = "step" /\ NoRule) =>
          /\ current_state' = current_state
          /\ step_count' = step_count
          /\ tapes' = tapes]_vars

\* A step() found no transition on a machine that had already applied some.
C2_Witness ==
    /\ op = "step" /\ applied = 0 /\ NoRule
    /\ step_count > 0
    /\ \E i \in 1..num_tapes : tapes[i].head # 0

\* C3: a step() whose key maps to (new_state, writes, moves) makes every tape i
\* hold writes[i] at the position its head had before the step, leaves every
\* other cell of the tape as it was, adds moves[i] to the head, sets
\* current_state to new_state, adds exactly 1 to step_count and returns ACCEPT
\* if new_state is in accept_states, else REJECT if it is in reject_states,
\* else RUNNING.
C3_StepAppliesTransition ==
    [][(op' = "step" /\ ~NoRule) =>
          /\ Len(tapes') = num_tapes
          /\ \A i \in 1..num_tapes :
                /\ Content(tapes'[i], tapes[i].head) = Rule[2][i]
                /\ \A p \in (DOMAIN tapes[i].cells \cup DOMAIN tapes'[i].cells)
                                \ {tapes[i].head} :
                      /\ p \in DOMAIN tapes[i].cells
                      /\ p \in DOMAIN tapes'[i].cells
                      /\ tapes'[i].cells[p] = tapes[i].cells[p]
                /\ tapes'[i].head = tapes[i].head + Rule[3][i]
                /\ tapes'[i].blank = tapes[i].blank
          /\ current_state' = Rule[1]
          /\ step_count' = step_count + 1
          /\ status' = IF Rule[1] \in accept_states THEN "ACCEPT"
                        ELSE IF Rule[1] \in reject_states THEN "REJECT"
                        ELSE "RUNNING"]_vars

\* A step() applied a transition of a two-tape machine that moved the two heads
\* in opposite directions and wrote a non-blank symbol.
C3_Witness ==
    /\ op = "step" /\ applied = 1 /\ num_tapes = 2
    /\ tapes[1].head = -1 /\ tapes[2].head = 1
    /\ 0 \in DOMAIN tapes[2].cells /\ tapes[2].cells[0] = "1"
    /\ status = "RUNNING"

\* C4: when the state the machine is in after a step() call belongs to both
\* accept_states and reject_states, that call returned ACCEPT (never REJECT),
\* whether it found no transition or has just entered the state.
C4_AcceptBeforeReject ==
    (op = "step" /\ current_state \in accept_states /\ current_state \in reject_states)
        => status = "ACCEPT"

\* A step() has just entered, through a transition, a state that is in both sets.
C4_Witness ==
    /\ op = "step" /\ applied = 1
    /\ current_state \in accept_states \cap reject_states
    /\ current_state # start_state
    /\ status = "ACCEPT"

\* C5: in every reachable state of a Tape (built from any initial string, then
\* any writes and moves) the cells map holds no entry whose value is blank.
C5_Sparsity ==
    \A p \in DOMAIN tape.cells : tape.cells[p] # tape.blank

\* C5 for the tapes of a machine: after any steps, runs and resets no tape
\* stores a blank.
C5_MachineSparsity ==
    \A i \in 1..Len(tapes) : \A p \in DOMAIN tapes[i].cells :
        tapes[i].cells[p] # tapes[i].blank

\* C6: right after write(s) with s # blank a read() returns s; right after
\* write(blank) a read() returns blank and cells has no entry at the head.
C6_WriteReadRoundTrip ==
    tapeOp = "write" =>
        /\ tapeArg # tape.blank => TapeRead(tape) = tapeArg
        /\ tapeArg = tape.blank =>
              /\ TapeRead(tape) = tape.blank
              /\ tape.head \notin DOMAIN tape.cells

\* The machine is on a rule that leads back to the same configuration: same
\* state (in neither special set), the symbols read are written back and no
\* head moves.  Such a machine never reaches a halting classification.
LoopsForever ==
    /\ ~NoRule
    /\ current_state \notin accept_states \cup reject_states
    /\ Rule[1] = current_state
    /\ \A i \in 1..num_tapes : Rule[2][i] = TapeRead(tapes[i]) /\ Rule[3][i] = 0

\* C7 as stated: on a machine that never reaches a halting classification,
\* run(max_steps = N) returns RUNNING with step_count = N exactly (N >= 0).
C7_BudgetBoundaryAsStated ==
    [][(op' = "run" /\ max_steps' >= 0 /\ LoopsForever) =>
          (status' = "RUNNING" /\ step_count' = max_steps')]_vars

\* C7 amended: a run(max_steps = N) entered with step_count <= N on a machine
\* that never reaches a halting classification returns RUNNING with
\* step_count = N exactly; and every run entered with step_count <= N that
\* returns RUNNING (each of its steps returned RUNNING) ends with
\* step_count = N.  A run entered with step_count > N returns RUNNING without
\* a step() call and leaves step_count as it was.
C7_BudgetBoundary ==
    [][/\ (op' = "run" /\ step_count <= max_steps') =>
             /\ LoopsForever => (status' = "RUNNING" /\ step_count' = max_steps')
             /\ status' = "RUNNING" => step_count' = max_steps'
       /\ (op' = "run" /\ step_count > max_steps') =>
             /\ status' = "RUNNING"
             /\ calls' = 0
             /\ step_count' = step_count]_vars

\* A run on a looping machine used its whole budget of at least two steps.
C7_Witness ==
    /\ op = "run" /\ LoopsForever
    /\ status = "RUNNING"
    /\ applied >= 2 /\ step_count = max_steps

\* C8 as stated: whenever run(max_steps) returns RUNNING (here: after at least
\* one step() call), step_count >= max_steps, the current state is in neither
\* special set and a transition is defined for the current key.
C8_RunningMeansNotHaltedAsStated ==
    (op = "run" /\ calls > 0 /\ status = "RUNNING") =>
        /\ step_count >= max_steps
        /\ current_state \notin accept_states \cup reject_states
        /\ ~NoRule

\* C8 amended: whenever run returns RUNNING, step_count >= max_steps, and if
\* the run made at least one step() call the current state is in neither
\* accept_states nor reject_states.
C8_RunningMeansBudgetExhausted ==
    (op = "run" /\ status = "RUNNING") =>
        /\ step_count >= max_steps
        /\ calls > 0 => current_state \notin accept_states \cup reject_states

\* A run returned RUNNING after applying transitions although no transition
\* is defined for the configuration it stopped in.
C8_Witness ==
    /\ op = "run" /\ status = "RUNNING"
    /\ calls > 0 /\ step_count = max_steps
    /\ NoRule
    /\ current_state \notin accept_states \cup reject_states

\* C9 as stated: once a step() has returned ACCEPT, REJECT or HALT, the next
\* step() returns the same classification and changes nothing.
C9_TerminalAsStated ==
    [][(op = "step" /\ status \in {"ACCEPT", "REJECT", "HALT"} /\ op' = "step") =>
          /\ status' = status
          /\ current_state' = current_state
          /\ step_count' = step_count
          /\ tapes' = tapes]_vars

\* C9 amended: a classification returned by a step() that found no transition
\* (HALT always is one) is terminal.  Such a step leaves the machine in a
\* configuration without transition and returned the classification of its
\* state; and from a configuration without transition every call other than
\* reset leaves current_state, step_count and the tapes unchanged, so the
\* configuration stays without transition, and every step() returns that same
\* classification.
C9_TerminalWithoutTransition ==
    [][/\ (op = "step" /\ (applied = 0 \/ status = "HALT")) =>
             /\ NoRule
             /\ status = IF current_state \in accept_states THEN "ACCEPT"
                          ELSE IF current_state \in reject_states THEN "REJECT"
                          ELSE "HALT"
       /\ (NoRule /\ op' # "reset") =>
             /\ current_state' = current_state
             /\ step_count' = step_count
             /\ tapes' = tapes
             /\ op' = "step" =>
                   status' = IF current_state \in accept_states THEN "ACCEPT"
                             ELSE IF current_state \in reject_states THEN "REJECT"
                             ELSE "HALT"]_vars

\* A step() found no transition and returned HALT after transitions had been
\* applied.
C9_Witness ==
    /\ op = "step" /\ applied = 0 /\ status = "HALT"
    /\ step_count >= 2
    /\ NoRule

\* The unary-successor machine freshly built on input "111".
FreshOn111 ==
    /\ transitions = UnarySuccessor
    /\ accept_states = {"q0"} /\ reject_states = {}
    /\ current_state = "q0" /\ step_count = 0
    /\ tapes = <<TapeNew("_", <<"1", "1", "1">>)>>

\* C10 as stated: the unary-successor machine run with max_steps = 10 on input
\* "111" returns ACCEPT with step_count = 3.
C10_UnarySuccessorAsStated ==
    [][(FreshOn111 /\ op' = "run" /\ max_steps' = 10) =>
          (status' = "ACCEPT" /\ step_count' = 3)]_vars

\* C10 amended: the unary-successor machine run with max_steps = 10 on input
\* "111" returns ACCEPT after its first transition, because the state entered
\* (q0) is an accept state: step_count = 1, the head is on position 1 and the
\* tape still holds "111".
C10_UnarySuccessor ==
    [][(FreshOn111 /\ op' = "run" /\ max_steps' = 10) =>
          /\ status' = "ACCEPT"
          /\ step_count' = 1
          /\ calls' = 1
          /\ current_state' = "q0"
          /\ tapes' = <<[blank |-> "_",
                         cells |-> [p \in 0..2 |-> "1"],
                         head |-> 1]>>]_vars

\* run(10) has returned ACCEPT after one step on input "111".
C10_Witness ==
    /\ op = "run" /\ max_steps = 10 /\ status = "ACCEPT"
    /\ step_count = 1 /\ calls = 1
    /\ tapes = <<[blank |-> "_", cells |-> [p \in 0..2 |-> "1"], head |-> 1]>>

\* The tapes a newly constructed machine has for the initial_inputs inp.
FreshTapes(inp) == [i \in 1..Len(inp) |-> TapeNew(blank, inp[i])]

\* C11: from any reachable state, reset(inputs) with len(inputs) = num_tapes
\* yields step_count = 0, current_state = start_state and tapes equal to fresh
\* tapes built from inputs (head 0, same cells), which is the dynamic state of
\* a newly constructed machine with those inputs; a second reset(inputs) with
\* the same inputs changes nothing further.
C11_IdempotentReset ==
    [][/\ (op = "init" /\ ~raised) =>
             /\ step_count = 0
             /\ current_state = start_state
             /\ tapes = FreshTapes(given_inputs)
       /\ (op' = "reset" /\ Len(given_inputs') = num_tapes) =>
             /\ raised' = FALSE
             /\ step_count' = 0
             /\ current_state' = start_state
             /\ Len(tapes') = num_tapes
             /\ tapes' = FreshTapes(given_inputs')
             /\ (op = "reset" /\ ~raised /\ given_inputs = given_inputs') =>
                   /\ tapes' = tapes
                   /\ current_state' = current_state
                   /\ step_count' = step_count]_vars

\* A two-tape machine has been reset with the inputs "1" and "".
C11_Witness ==
    /\ op = "reset" /\ raised = FALSE
    /\ num_tapes = 2
    /\ given_inputs = << <<"1">>, <<>> >>
    /\ step_count = 0 /\ current_state = start_state
    /\ tapes[1].cells = [p \in {0} |-> "1"] /\ tapes[2].cells = <<>>

\* C12: __init__ and reset raise exactly when len(initial_inputs) differs from
\* num_tapes; a construction that raised left no machine, a call that did not
\* raise built exactly one tape per given string (nothing truncated, nothing
\* padded); and a reset that raises leaves tapes, current_state and step_count
\* exactly as they were.
C12_LengthValidation ==
    /\ [](op \in {"init", "reset"} =>
            /\ raised <=> (Len(given_inputs) # num_tapes)
            /\ (op = "init" /\ raised) => tapes = <<>>
            /\ ~raised =>
                  /\ Len(tapes) = Len(given_inputs)
                  /\ \A i \in 1..Len(tapes) : tapes[i] = TapeNew(blank, given_inputs[i]))
    /\ [][(op' = "reset" /\ Len(given_inputs') # num_tapes) =>
             /\ raised' = TRUE
             /\ tapes' = tapes
             /\ current_state' = current_state
             /\ step_count' = step_count]_vars

\* A reset with one string too many was refused on a machine that had applied
\* transitions.
C12_Witness ==
    /\ op = "reset" /\ raised = TRUE
    /\ Len(given_inputs) = num_tapes + 1
    /\ step_count > 0
    /\ \E i \in 1..num_tapes : tapes[i].head # 0

\* C13: step_count is 0 after construction; a step() adds exactly 1 when it
\* applies a transition and 0 when it finds none; a run() adds one per step()
\* call it makes, except for a last call that found no transition; a reset
\* sets it to 0 (or leaves it when it raises); and only a reset ever makes it
\* smaller.
C13_StepCountCountsTransitions ==
    [][/\ (op = "init" /\ ~raised) => step_count = 0
       /\ op' = "step" =>
             step_count' = step_count + (IF NoRule THEN 0 ELSE 1)
       /\ op' = "run" =>
             /\ step_count' - step_count \in {calls', calls' - 1}
             /\ step_count' >= step_count
             /\ status' = "RUNNING" => step_count' - step_count = calls'
             /\ status' = "HALT" => step_count' - step_count = calls' - 1
       /\ op' = "reset" =>
             step_count' = (IF raised' THEN step_count ELSE 0)
       /\ step_count' < step_count =>
             (op' = "reset" /\ step_count' = 0)]_vars

\* A run() on a two-tape machine that had applied one transition made two
\* step() calls: one applied a transition, the next found none.
C13_Witness ==
    /\ op = "run" /\ num_tapes = 2
    /\ calls = 2 /\ status = "HALT"
    /\ step_count = 2

\* C14: no operation (step, run, reset, get_configuration) changes
\* transitions, states, input_alphabet, tape_alphabet, blank, start_state,
\* accept_states, reject_states or num_tapes: they keep their values of
\* construction.
C14_StaticProgramUnchanged ==
    [][/\ transitions' = transitions
       /\ states' = states
       /\ input_alphabet' = input_alphabet
       /\ tape_alphabet' = tape_alphabet
       /\ blank' = blank
       /\ start_state' = start_state
       /\ accept_states' = accept_states
       /\ reject_states' = reject_states
       /\ num_tapes' = num_tapes]_vars

\* A two-tape machine with rules and with accept and reject states has gone
\* through a reset that was accepted.
C14_Witness ==
    /\ op = "reset" /\ raised = FALSE
    /\ transitions # EmptyTable
    /\ accept_states # {} /\ reject_states # {}
    /\ num_tapes = 2

\* C16: get_configuration() returns state = current_state and
\* step = step_count (and one rendered string per tape), and leaves
\* current_state, step_count and every tape unchanged.
C16_GetConfigurationPure ==
    [][op' = "get_configuration" =>
          /\ config'.state = current_state
          /\ config'.step = step_count
          /\ Len(config'.tapes) = num_tapes
          /\ current_state' = current_state
          /\ step_count' = step_count
          /\ tapes' = tapes]_vars

\* A snapshot was taken in mid-execution, in a state other than the start
\* state.
C16_Witness ==
    /\ op = "get_configuration"
    /\ config.state = current_state /\ current_state # start_state
    /\ config.step = step_count /\ step_count >= 2

\* The positions of a tape that hold a non-blank symbol.
NonBlank(t) == {p \in DOMAIN t.cells : t.cells[p] # t.blank}

\* C20: the rendering of a tape covers exactly the positions from the smallest
\* to the largest of its non-blank cells and the head (three characters per
\* position), and it is "[blank]" whenever the tape holds no non-blank symbol.
C20_Rendering ==
    tapeOp = "str" =>
        /\ Len(tapeRet) =
              3 * (MaxOf(NonBlank(tape) \cup {tape.head})
                     - MinOf(NonBlank(tape) \cup {tape.head}) + 1)
        /\ NonBlank(tape) = {} => tapeRet = <<"[", tape.blank, "]">>

\* max(0, n)
AtLeastZero(n) == IF n < 0 THEN 0 ELSE n

\* C17: from every configuration a machine gets into, run(max_steps) returns
\* for every budget; every step() either returns a status other than RUNNING or adds 1 to step_count; a run
\* makes at most max(0, max_steps - step_count at entry) step() calls; and a
\* run entered with step_count <= max_steps returns with
\* step_count <= max_steps.
C17_RunTerminates ==
    Constructed =>
        /\ LET s == StepOf(Dyn)
           IN  s.status = "RUNNING" => s.step = step_count + 1
        /\ \A m \in -1..MaxSteps :
              LET r == RunOf(Dyn, m)
              IN  /\ r.status \in {"RUNNING", "ACCEPT", "REJECT", "HALT"}
                  /\ r.calls \in 0..AtLeastZero(m - step_count)
                  /\ step_count <= m => r.step <= m
                  /\ r.calls < AtLeastZero(m - step_count) =>
                        r.status # "RUNNING"

\* A run resumed on a looping machine made exactly the step() calls its
\* budget left.
C17_Witness ==
    /\ op = "run" /\ LoopsForever
    /\ calls = 2 /\ max_steps = 3 /\ step_count = 3
    /\ status = "RUNNING"

\* C18: a run() called right after a run() that returned RUNNING, without
\* reset, goes on from the current configuration and the current step_count:
\* with max_steps <= step_count it makes no step() call, returns RUNNING and
\* changes nothing, even when the configuration has no transition; with
\* max_steps > step_count it makes step() calls from the current
\* configuration (the first one applies the rule of the current key, or
\* classifies the configuration when there is none) until a status other than
\* RUNNING or step_count = max_steps.
C18_ResumeAfterRunning ==
    [][(op = "run" /\ status = "RUNNING" /\ op' = "run") =>
          /\ max_steps' <= step_count =>
                /\ calls' = 0
                /\ status' = "RUNNING"
                /\ current_state' = current_state
                /\ step_count' = step_count
                /\ tapes' = tapes
          /\ max_steps' > step_count =>
                /\ calls' >= 1
                /\ step_count <= step_count' /\ step_count' <= max_steps'
                /\ status' # "RUNNING" \/ step_count' = max_steps'
                /\ NoRule =>
                      /\ calls' = 1
                      /\ status' = IF current_state \in accept_states THEN "ACCEPT"
                                    ELSE IF current_state \in reject_states THEN "REJECT"
                                    ELSE "HALT"
                      /\ current_state' = current_state
                      /\ step_count' = step_count
                      /\ tapes' = tapes
                /\ ~NoRule =>
                      /\ step_count' >= step_count + 1
                      /\ step_count' = step_count + 1 =>
                            /\ current_state' = Rule[1]
                            /\ \A i \in 1..num_tapes :
                                  tapes'[i].head = tapes[i].head + Rule[3][i]]_vars

\* A run() returned RUNNING without a step() call, its budget being used up
\* already, in a configuration that has no transition.
C18_Witness ==
    /\ op = "run" /\ status = "RUNNING" /\ calls = 0
    /\ max_steps >= 1 /\ step_count >= max_steps
    /\ NoRule

\* What read() has to return at position p: the symbol of the latest write()
\* made there, else the character of the initial string there, else blank.
Expected(p) ==
    IF p \in DOMAIN tapeWritten THEN tapeWritten[p]
    ELSE IF 0 <= p /\ p < Len(tapeInput) THEN tapeInput[p + 1]
    ELSE tape.blank

\* C19: after any sequence of write and move calls on a tape built from an
\* initial string, at every integer position, negative ones included, the
\* tape holds the symbol most recently written there, else the initial
\* string's character there, else blank; read() returns that symbol for the
\* head's position; a move shifts the head by its direction.
C19_TotalFunction ==
    /\ \A p \in (-MaxHead - 1)..(MaxHead + 1) : Content(tape, p) = Expected(p)
    /\ TapeRead(tape) = Expected(tape.head)
    /\ tapeOp = "read" => tapeRet = Expected(tape.head)

\* A read() left of position 0 returned a symbol written there earlier.
C19_Witness ==
    /\ tapeOp = "read" /\ tape.head = -MaxHead /\ tapeRet = "1"
    /\ tape.head \in DOMAIN tapeWritten /\ tapeWritten[tape.head] = "1"
    /\ tapeInput = <<"1">>

====
